---- MODULE Spec2Model ----
(***************************************************************************)
(* The /thumbnail endpoint of backend/venv/server.py: one Flask handler    *)
(* that resolves an image source (URL or upload), stores it in the shared  *)
(* uploads directory, generates a JPEG thumbnail, extracts EXIF metadata,  *)
(* removes the temp file of a URL-sourced request and responds.            *)
(* Each request is a process; a step of a process is a maximal run of the  *)
(* handler that touches the uploads directory at most once.                *)
(***************************************************************************)
EXTENDS Integers, Sequences, FiniteSets, TLC

\* ------------------------------------------------------------- bounds
NumReq == 2        \* requests in flight in Spec
MaxDim == 5        \* image and requested dimensions range over 1..MaxDim

DEFAULT_DIM == 100 \* request.form.get('width', 100)

Reqs == 1..NumReq

\* ------------------------------------------------------------- strings
\* Strings the code inspects character by character are sequences of
\* one-character strings.
Digits == <<"0", "1", "2", "3", "4", "5", "6", "7", "8", "9">>

IsDigit(c) == \E i \in 1..10 : Digits[i] = c

DigitVal(c) == (CHOOSE i \in 1..10 : Digits[i] = c) - 1

\* The decimal numeral of n >= 0.
RECURSIVE Numeral(_)
Numeral(n) == IF n < 10 THEN <<Digits[n + 1]>>
              ELSE Numeral(n \div 10) \o <<Digits[(n % 10) + 1]>>

RECURSIVE DigitsValue(_)
DigitsValue(s) == IF s = <<>> THEN 0
                  ELSE 10 * DigitsValue(SubSeq(s, 1, Len(s) - 1)) + DigitVal(s[Len(s)])

AllDigits(s) == Len(s) > 0 /\ \A i \in 1..Len(s) : IsDigit(s[i])

\* int(text): an optional sign followed by decimal digits; anything else
\* raises ValueError.
IntParses(s) ==
    \/ AllDigits(s)
    \/ Len(s) > 1 /\ s[1] \in {"-", "+"} /\ AllDigits(Tail(s))

IntValue(s) ==
    IF s[1] = "-" THEN 0 - DigitsValue(Tail(s))
    ELSE IF s[1] = "+" THEN DigitsValue(Tail(s))
    ELSE DigitsValue(s)

ABSENT == <<"<absent>">>   \* a form field the request does not carry

\* int(request.form.get(name, 100)): the field's integer value, 100 when the
\* field is absent; [ok |-> FALSE] stands for the ValueError int() raises.
FormInt(field) ==
    IF field = ABSENT THEN [ok |-> TRUE, v |-> DEFAULT_DIM]
    ELSE IF IntParses(field) THEN [ok |-> TRUE, v |-> IntValue(field)]
    ELSE [ok |-> FALSE, v |-> 0]

\* ------------------------------------------------------------- file names
\* os.path.basename: what follows the last "/".
RECURSIVE basename(_)
basename(s) ==
    IF \A i \in 1..Len(s) : s[i] # "/" THEN s
    ELSE basename(Tail(s))

\* characters werkzeug's _filename_ascii_strip_re keeps
SafeChars == {"a", "b", "h", "j", "p", "_", ".", "-"}

RECURSIVE StripLeft(_, _)
StripLeft(s, cs) == IF s # <<>> /\ Head(s) \in cs THEN StripLeft(Tail(s), cs) ELSE s

RECURSIVE StripRight(_, _)
StripRight(s, cs) ==
    IF s # <<>> /\ s[Len(s)] \in cs THEN StripRight(SubSeq(s, 1, Len(s) - 1), cs) ELSE s

Strip(s, cs) == StripRight(StripLeft(s, cs), cs)

\* "_".join(s.split()) of a string without leading or trailing blanks
RECURSIVE JoinWords(_)
JoinWords(s) ==
    IF s = <<>> THEN <<>>
    ELSE IF Head(s) = " "
         THEN <<"_">> \o JoinWords(StripLeft(s, {" "}))
         ELSE <<Head(s)>> \o JoinWords(Tail(s))

IsSafeChar(c) == c \in SafeChars

\* werkzeug.utils.secure_filename on a POSIX host: path separators become
\* blanks, runs of blanks become "_", characters outside [A-Za-z0-9_.-]
\* are dropped, leading and trailing "." and "_" are stripped.
secure_filename(s) ==
    LET blanks == [i \in 1..Len(s) |-> IF s[i] = "/" THEN " " ELSE s[i]]
        joined == JoinWords(Strip(blanks, {" "}))
    IN  Strip(SelectSeq(joined, IsSafeChar), {".", "_"})

\* os.path.splitext(path)[1] without the dot, <<>> when there is none
RECURSIVE Extension(_)
Extension(s) ==
    IF \A i \in 1..Len(s) : s[i] # "." THEN <<>>
    ELSE LET k == CHOOSE i \in 1..Len(s) :
                      s[i] = "." /\ \A j \in (i + 1)..Len(s) : s[j] # "."
         IN  IF \A j \in 1..(k - 1) : s[j] = "." THEN <<>>
             ELSE SubSeq(s, k + 1, Len(s))

\* The format PIL's Image.save picks from the file extension; "" when the
\* extension is unknown (ValueError: unknown file extension).
FormatOfName(name) ==
    LET e == Extension(name)
    IN  IF e = <<"j">> THEN "JPEG" ELSE IF e = <<"p">> THEN "PNG" ELSE ""

\* os.path.join(app.config['UPLOAD_FOLDER'], name): a path of the uploads
\* directory is identified by the name below it; <<>> is the directory itself.
UploadPath(name) == name

\* ------------------------------------------------------------- images
\* An image: its size, whether its mode can be written as JPEG (RGB yes,
\* RGBA no), and its EXIF: "none" (no tag table), "raises" (reading the
\* table raises), "tags" (a table of serializable values), "rational" (a
\* table holding a value jsonify cannot serialize).
Image(w, h, jpeg, exif) == [kind |-> "image", w |-> w, h |-> h, jpeg |-> jpeg, exif |-> exif]

Garbage == [kind |-> "garbage"]    \* bytes that do not decode as an image

\* ------------------------------------------------------------- thumbnail size
Abs(x) == IF x < 0 THEN 0 - x ELSE x

FloorDiv(a, b) == a \div b                 \* b > 0

CeilDiv(a, b) == 0 - ((0 - a) \div b)      \* b > 0

\* PIL Image.thumbnail((x, y)) on an image of size w0 x h0: the size of the
\* result, or ok = FALSE when the call raises (division by a zero height,
\* resize to a non-positive size).
ThumbnailSize(w0, h0, x, y) ==
    IF x >= w0 /\ y >= h0 THEN [ok |-> TRUE, w |-> w0, h |-> h0]
    ELSE IF y = 0 THEN [ok |-> FALSE, w |-> 0, h |-> 0]
    ELSE LET \* x / y >= w0 / h0
             wide == IF y > 0 THEN x * h0 >= w0 * y ELSE x * h0 =< w0 * y
             \* round_aspect(y * aspect, key = |aspect - n / y|)
             fx == FloorDiv(y * w0, h0)
             cx == CeilDiv(y * w0, h0)
             nx == IF Abs(w0 * y - fx * h0) =< Abs(w0 * y - cx * h0) THEN fx ELSE cx
             \* round_aspect(x / aspect, key = 0 if n == 0 else |aspect - x / n|)
             fy == FloorDiv(x * h0, w0)
             cy == CeilDiv(x * h0, w0)
             ny == IF fy = 0 THEN fy
                   ELSE IF cy = 0 THEN (IF Abs(w0 * fy - x * h0) = 0 THEN fy ELSE cy)
                   ELSE IF Abs(w0 * fy - x * h0) * Abs(cy) =< Abs(w0 * cy - x * h0) * Abs(fy)
                        THEN fy ELSE cy
             rx == IF wide THEN (IF nx > 1 THEN nx ELSE 1) ELSE x
             ry == IF wide THEN y ELSE (IF ny > 1 THEN ny ELSE 1)
         IN  IF rx < 1 \/ ry < 1 THEN [ok |-> FALSE, w |-> 0, h |-> 0]
             ELSE [ok |-> TRUE, w |-> rx, h |-> ry]


\* ------------------------------------------------------------- EXIF
\* PIL.ExifTags.TAGS, restricted to the tags the model's images carry
TAGS == [i \in {271, 274, 33434, 37500} |->
            IF i = 271 THEN "Make"
            ELSE IF i = 274 THEN "Orientation"
            ELSE IF i = 33434 THEN "ExposureTime" ELSE "MakerNote"]

\* EXIF values: text, bytes that decode, bytes that do not, integers, and
\* PIL's IFDRational.
ExifValue(t, v) == [t |-> t, v |-> v]

\* img._getexif() of an image whose exif is "tags" or "rational"
ExifTable(exif) ==
    {<<271, ExifValue("str", "TestCam")>>,
     <<37500, ExifValue("bytes", "note")>>,
     <<274, ExifValue("rawbytes", "ff")>>}
    \cup (IF exif = "rational" THEN {<<33434, ExifValue("rational", "1/60")>>} ELSE {})

\* lines 38-45: the tag's name, bytes decoded to text, undecodable bytes
\* replaced by their repr
MetadataEntry(tag_id, value) ==
    << IF tag_id \in DOMAIN TAGS THEN TAGS[tag_id] ELSE tag_id,
       IF value.t = "bytes" THEN ExifValue("str", value.v)
       ELSE IF value.t = "rawbytes" THEN ExifValue("repr", value.v)
       ELSE value >>

EmptyMetadata == {}

\* get_image_metadata(image_path), given what the path holds when it is
\* opened: every exception is caught and gives the empty mapping.
get_image_metadata_reports_error(file) ==
    IF file.kind # "file" \/ file.data.kind # "image" \/ file.data.exif = "raises"
    THEN {<<"error", ExifValue("str", "extraction failed")>>}
    ELSE IF file.data.exif = "none" THEN EmptyMetadata
    ELSE {MetadataEntry(e[1], e[2]) : e \in ExifTable(file.data.exif)}

get_image_metadata(file) ==
    IF file.kind # "file" THEN EmptyMetadata                \* Image.open raises
    ELSE IF file.data.kind # "image" THEN EmptyMetadata      \* UnidentifiedImageError
    ELSE IF file.data.exif = "raises" THEN EmptyMetadata     \* _getexif raises
    ELSE IF file.data.exif = "none" THEN EmptyMetadata       \* exif_data is None
    ELSE {MetadataEntry(e[1], e[2]) : e \in ExifTable(file.data.exif)}

\* jsonify serializes text and integers, not IFDRational
JsonSerializable(md) == \A e \in md : e[2].t \in {"str", "repr", "int"}

\* ------------------------------------------------------------- uploads directory
NoFile == [kind |-> "absent"]

\* a file of the uploads directory: its bytes and the request that wrote them
File(r, data) == [kind |-> "file", owner |-> r, data |-> data]

\* img.save / image_file.save: the path now holds what request r wrote
WriteFile_lost(fs, path, r, data) == fs

WriteFile(fs, path, r, data) == [fs EXCEPT ![path] = File(r, data)]

\* PIL re-encodes the decoded image in the format of the target's extension
\* and does not carry the EXIF table over.
Reencode(image, fmt) == [image EXCEPT !.exif = "none"]

\* ------------------------------------------------------------- thumbnail
NoThumbnail == [kind |-> "none"]

\* the JPEG bytes of a thumbnail: its size, and the file it was made from
Thumbnail(w, h, file) ==
    [kind |-> "jpeg", w |-> w, h |-> h,
     owner |-> file.owner, sw |-> file.data.w, sh |-> file.data.h]

\* img.thumbnail((width, height)), line 74
ThumbnailCall_resize(w0, h0, width, height) ==
    IF width < 1 \/ height < 1 THEN [ok |-> FALSE, w |-> 0, h |-> 0]
    ELSE [ok |-> TRUE, w |-> width, h |-> height]

ThumbnailCall(w0, h0, width, height) == ThumbnailSize(w0, h0, width, height)

\* generate_thumbnail(image_path, width, height), given what the path holds
\* when it is opened: None (NoThumbnail) on any exception.
generate_thumbnail(file, width, height) ==
    IF file.kind # "file" THEN NoThumbnail                   \* Image.open raises
    ELSE IF file.data.kind # "image" THEN NoThumbnail         \* UnidentifiedImageError
    ELSE LET size == ThumbnailCall(file.data.w, file.data.h, width, height)
         IN  IF ~size.ok THEN NoThumbnail                     \* thumbnail raises
             ELSE IF ~file.data.jpeg THEN NoThumbnail         \* cannot write mode as JPEG
             ELSE Thumbnail(size.w, size.h, file)

\* line 117: thumbnail_io is None
ThumbnailIsNone_unchecked(t) == FALSE

ThumbnailIsNone(t) == t = NoThumbnail

\* lines 124-125: the data URL of the thumbnail bytes
DataUrl(t) == [scheme |-> "data:image/jpeg;base64", of |-> t]

NoUrl == [scheme |-> "", of |-> NoThumbnail]


\* ------------------------------------------------------------- requests
NoUpload == [kind |-> "absent"]

Upload(filename, content) == [kind |-> "upload", filename |-> filename, content |-> content]

\* request.form and request.files of one request
Form(width, height, imageUrl, image) ==
    [width |-> width, height |-> height, imageUrl |-> imageUrl, image |-> image]

NoForm == Form(ABSENT, ABSENT, ABSENT, NoUpload)

NoImage == [kind |-> "none"]

Unbound == <<"<unbound>">>     \* a local the handler has not assigned

\* images the requests of Spec upload
SmallImages ==
    {Image(4, 3, TRUE, "tags"), Image(4, 3, FALSE, "none"), Image(4, 3, TRUE, "raises")}

\* images the URLs of Spec serve
RemoteImages == {Image(4, 3, TRUE, "tags"), Image(4, 3, FALSE, "none")}

\* images of SpecOne: every size up to MaxDim, and the 400 x 300 photo
AllImages ==
    {Image(w, h, TRUE, "tags") : w \in 1..MaxDim, h \in 1..MaxDim}
    \cup {Image(400, 300, TRUE, "tags"), Image(4, 3, TRUE, "rational")} \cup SmallImages

\* values of the width and height fields in SpecOne
DimFields ==
    {ABSENT, <<"x">>, <<>>, <<"0">>, <<"-", "1">>} \cup {Numeral(n) : n \in 1..MaxDim}

UploadNames ==
    {<<>>, <<"a", ".", "p">>, <<"a", ".", "j">>, <<"/", "a", ".", "j">>, <<".", ".">>,
     <<"a">>, <<"a", " ", "b", ".", "j">>}

Urls ==
    {<<>>, <<"h", "/">>, <<"h", "/", "a">>, <<"h", "/", "a", ".", "p">>,
     <<"h", "/", "a", ".", "j">>}

\* the requests of Spec: the branches of the handler, with names that
\* collide in the uploads directory
SmallForms ==
    {NoForm,
     Form(<<"x">>, ABSENT, ABSENT, Upload(<<"a", ".", "j">>, Image(4, 3, TRUE, "tags"))),
     Form(<<"0">>, ABSENT, ABSENT, Upload(<<"a", ".", "j">>, Image(4, 3, TRUE, "tags"))),
     Form(ABSENT, ABSENT, ABSENT, Upload(<<>>, Garbage)),
     Form(ABSENT, ABSENT, ABSENT, Upload(<<"/", "a", ".", "j">>, Garbage)),
     Form(ABSENT, ABSENT, <<"h", "/", "a", ".", "j">>, NoUpload),
     Form(ABSENT, ABSENT, <<"h", "/", "a", ".", "p">>, NoUpload)}
    \cup {Form(ABSENT, ABSENT, ABSENT, Upload(<<"a", ".", "j">>, i)) : i \in SmallImages}

\* the requests of SpecOne
AllForms ==
    {Form(w, h, ABSENT, NoUpload) : w \in DimFields, h \in DimFields}
    \cup {Form(w, h, u, NoUpload) : w \in DimFields, h \in DimFields, u \in Urls}
    \cup {Form(w, h, ABSENT, Upload(n, Image(4, 3, TRUE, "tags"))) :
              w \in DimFields, h \in DimFields, n \in UploadNames}
    \cup {Form(w, h, ABSENT, Upload(<<"a", ".", "p">>, c)) :
              w \in DimFields, h \in DimFields, c \in AllImages \cup {Garbage}}
    \cup {Form(ABSENT, ABSENT, <<"h", "/", "a", ".", "p">>,
               Upload(<<"a", ".", "j">>, Image(4, 3, TRUE, "tags")))}

\* what urlopen(image_url) and Image.open give: the remote image, or the
\* exception raised; an empty URL never opens
FetchOutcomes(url, images) ==
    IF url = <<>> THEN {[ok |-> FALSE, cause |-> "ValueError: unknown url type", image |-> NoImage]}
    ELSE {[ok |-> FALSE, cause |-> "URLError", image |-> NoImage],
          [ok |-> FALSE, cause |-> "UnidentifiedImageError", image |-> NoImage]}
         \cup {[ok |-> TRUE, cause |-> "", image |-> i] : i \in images}

\* the names files are stored under
Paths ==
    ({secure_filename(n) : n \in UploadNames} \cup {secure_filename(basename(u)) : u \in Urls})
    \ {<<>>}

\* ------------------------------------------------------------- responses
NoBody == [kind |-> "none", error |-> "", cause |-> "", thumbnailUrl |-> NoUrl, metadata |-> {}]

\* jsonify({'error': ...})
JsonError(msg, cause) ==
    [kind |-> "json", error |-> msg, cause |-> cause, thumbnailUrl |-> NoUrl, metadata |-> {}]

\* jsonify({'thumbnailUrl': ..., 'metadata': ...})
JsonResult(url, md) ==
    [kind |-> "json", error |-> "", cause |-> "", thumbnailUrl |-> url, metadata |-> md]

\* Flask's answer to an exception the handler does not catch: 500, not JSON
UnhandledBody(exc) ==
    [kind |-> "html", error |-> "Internal Server Error", cause |-> exc,
     thumbnailUrl |-> NoUrl, metadata |-> {}]

\* line 105
DownloadError(e) == JsonError("Error downloading image from URL: ", e)


\* ------------------------------------------------------------- state
VARIABLES
    files,          \* the uploads directory: path -> NoFile or File
    pc,             \* where each request's handler stands
    form,           \* the request's form fields and files
    width, height,  \* locals of thumbnail()
    img,            \* the image decoded from the URL
    image_path,
    temp_filepath,
    thumbnail_io,
    metadata,
    thumbnail_url,
    status, body,   \* the response
    ran,            \* history: the operations the handler has called
    seen,           \* history: the file generate_thumbnail and get_image_metadata opened
    rm              \* history: how os.remove ended ("none" before it ran)

locals == <<width, height, img, image_path, temp_filepath, thumbnail_io, metadata, thumbnail_url>>

response == <<status, body>>

history == <<ran, seen, rm>>

vars == <<files, pc, form, locals, response, history>>

Unopened == [kind |-> "unopened"]     \* the path has not been opened

Init ==
    /\ files = [p \in Paths |-> NoFile]
    /\ pc = [r \in Reqs |-> "idle"]
    /\ form = [r \in Reqs |-> NoForm]
    /\ width = [r \in Reqs |-> 0]
    /\ height = [r \in Reqs |-> 0]
    /\ img = [r \in Reqs |-> NoImage]
    /\ image_path = [r \in Reqs |-> Unbound]
    /\ temp_filepath = [r \in Reqs |-> Unbound]
    /\ thumbnail_io = [r \in Reqs |-> NoThumbnail]
    /\ metadata = [r \in Reqs |-> EmptyMetadata]
    /\ thumbnail_url = [r \in Reqs |-> NoUrl]
    /\ status = [r \in Reqs |-> 0]
    /\ body = [r \in Reqs |-> NoBody]
    /\ ran = [r \in Reqs |-> {}]
    /\ seen = [r \in Reqs |-> [gen |-> Unopened, meta |-> Unopened]]
    /\ rm = [r \in Reqs |-> "none"]

\* the handler returns (or Flask answers for it)
Return(r, code, b) ==
    /\ status' = [status EXCEPT ![r] = code]
    /\ body' = [body EXCEPT ![r] = b]
    /\ pc' = [pc EXCEPT ![r] = "done"]

Goto(r, label) ==
    /\ pc' = [pc EXCEPT ![r] = label]
    /\ UNCHANGED response

Ran(r, op) == ran' = [ran EXCEPT ![r] = @ \cup {op}]

\* line 128: 'temp_filepath' in locals()
TempFileBound_always(r) == TRUE

TempFileBound(r) == temp_filepath[r] # Unbound

\* ------------------------------------------------------------- the handler
\* a request arrives
Receive(r, f) ==
    /\ pc[r] = "idle"
    /\ form' = [form EXCEPT ![r] = f]
    /\ Goto(r, "parse")
    /\ UNCHANGED <<files, locals, history>>

\* lines 90-91: int() of the width and height fields; a ValueError is not
\* caught by the handler
ParseDimensions(r) ==
    /\ pc[r] = "parse"
    /\ LET w == FormInt(form[r].width)
           h == FormInt(form[r].height)
       IN  IF w.ok /\ h.ok
           THEN /\ width' = [width EXCEPT ![r] = w.v]
                /\ height' = [height EXCEPT ![r] = h.v]
                /\ Goto(r, "resolve")
           ELSE /\ Return(r, 500, UnhandledBody("ValueError: invalid literal for int()"))
                /\ UNCHANGED <<width, height>>
    /\ UNCHANGED <<files, form, img, image_path, temp_filepath, thumbnail_io, metadata,
                   thumbnail_url, history>>

\* lines 93-98, 104-105: the URL is opened and decoded
FetchUrl(r, o) ==
    /\ pc[r] = "resolve"
    /\ form[r].imageUrl # ABSENT
    /\ Ran(r, "fetch")
    /\ IF o.ok
       THEN /\ img' = [img EXCEPT ![r] = o.image]
            /\ Goto(r, "save_temp")
       ELSE /\ Return(r, 400, DownloadError(o.cause))
            /\ UNCHANGED img
    /\ UNCHANGED <<files, form, width, height, image_path, temp_filepath, thumbnail_io,
                   metadata, thumbnail_url, seen, rm>>

\* lines 100-105: the decoded image is saved under the URL's sanitized base
\* name. An unknown extension raises before the file is opened; an image
\* the format cannot hold raises after PIL opened (and truncated) the file
\* for writing, and PIL then removes the file if it had created it.
SaveTemp(r) ==
    /\ pc[r] = "save_temp"
    /\ Ran(r, "save")
    /\ LET temp_filename == secure_filename(basename(form[r].imageUrl))
           path == UploadPath(temp_filename)
           fmt == FormatOfName(temp_filename)
       IN  /\ temp_filepath' = [temp_filepath EXCEPT ![r] = path]
           /\ IF fmt = ""
              THEN /\ Return(r, 400, DownloadError("ValueError: unknown file extension"))
                   /\ UNCHANGED <<files, image_path>>
              ELSE IF fmt = "JPEG" /\ ~img[r].jpeg
              THEN /\ Return(r, 400, DownloadError("OSError: cannot write mode as JPEG"))
                   /\ files' = IF files[path] = NoFile THEN files
                               ELSE WriteFile(files, path, r, Garbage)
                   /\ UNCHANGED image_path
              ELSE /\ files' = WriteFile(files, path, r, Reencode(img[r], fmt))
                   /\ image_path' = [image_path EXCEPT ![r] = path]
                   /\ Goto(r, "generate")
    /\ UNCHANGED <<form, width, height, img, thumbnail_io, metadata, thumbnail_url, seen, rm>>

\* lines 106-109: the upload has an empty filename
EmptyFilename(r) ==
    /\ pc[r] = "resolve"
    /\ form[r].imageUrl = ABSENT
    /\ form[r].image # NoUpload
    /\ form[r].image.filename = <<>>
    /\ Return(r, 400, JsonError("No selected file", ""))
    /\ UNCHANGED <<files, form, locals, history>>

\* lines 106-112: the upload is saved under its sanitized filename; a
\* filename that sanitizes to nothing names the directory itself, and the
\* error of saving to it is not caught
SaveUpload(r) ==
    /\ pc[r] = "resolve"
    /\ form[r].imageUrl = ABSENT
    /\ form[r].image # NoUpload
    /\ form[r].image.filename # <<>>
    /\ Ran(r, "save")
    /\ LET filename == secure_filename(form[r].image.filename)
           path == UploadPath(filename)
       IN  /\ image_path' = [image_path EXCEPT ![r] = path]
           /\ IF filename = <<>>
              THEN /\ Return(r, 500, UnhandledBody("IsADirectoryError"))
                   /\ UNCHANGED files
              ELSE /\ files' = WriteFile(files, path, r, form[r].image.content)
                   /\ Goto(r, "generate")
    /\ UNCHANGED <<form, width, height, img, temp_filepath, thumbnail_io, metadata,
                   thumbnail_url, seen, rm>>

\* lines 113-114
MissingSource(r) ==
    /\ pc[r] = "resolve"
    /\ form[r].imageUrl = ABSENT
    /\ form[r].image = NoUpload
    /\ Return(r, 400, JsonError("Missing imageUrl or image file", ""))
    /\ UNCHANGED <<files, form, locals, history>>

\* lines 116-118
GenerateThumbnail(r) ==
    /\ pc[r] = "generate"
    /\ Ran(r, "generate")
    /\ seen' = [seen EXCEPT ![r].gen = files[image_path[r]]]
    /\ LET t == generate_thumbnail(files[image_path[r]], width[r], height[r])
       IN  /\ thumbnail_io' = [thumbnail_io EXCEPT ![r] = t]
           /\ IF ThumbnailIsNone(t)
              THEN Return(r, 500, JsonError("Failed to generate thumbnail", ""))
              ELSE Goto(r, "metadata")
    /\ UNCHANGED <<files, form, width, height, img, image_path, temp_filepath, metadata,
                   thumbnail_url, rm>>

\* lines 120-125
GetMetadata(r) ==
    /\ pc[r] = "metadata"
    /\ Ran(r, "metadata")
    /\ seen' = [seen EXCEPT ![r].meta = files[image_path[r]]]
    /\ metadata' = [metadata EXCEPT ![r] = get_image_metadata(files[image_path[r]])]
    /\ thumbnail_url' = [thumbnail_url EXCEPT ![r] = DataUrl(thumbnail_io[r])]
    /\ Goto(r, "cleanup")
    /\ UNCHANGED <<files, form, width, height, img, image_path, temp_filepath,
                   thumbnail_io, rm>>

\* lines 127-132: os.remove of the temp file; whatever it raises (the file
\* is gone already, the operating system refuses) is printed and dropped
Cleanup(r, refused) ==
    /\ pc[r] = "cleanup"
    /\ IF TempFileBound(r)
       THEN /\ Ran(r, "cleanup")
            /\ IF files[image_path[r]] = NoFile
               THEN /\ rm' = [rm EXCEPT ![r] = "not found"]
                    /\ UNCHANGED files
               ELSE IF refused
               THEN /\ rm' = [rm EXCEPT ![r] = "refused"]
                    /\ UNCHANGED files
               ELSE /\ rm' = [rm EXCEPT ![r] = "removed"]
                    /\ files' = [files EXCEPT ![image_path[r]] = NoFile]
       ELSE UNCHANGED <<files, ran, rm>>
    /\ Goto(r, "respond")
    /\ UNCHANGED <<form, locals, seen>>

\* lines 134-137: jsonify raises TypeError on a value it cannot serialize
Respond(r) ==
    /\ pc[r] = "respond"
    /\ IF JsonSerializable(metadata[r])
       THEN Return(r, 200, JsonResult(thumbnail_url[r], metadata[r]))
       ELSE Return(r, 500, UnhandledBody("TypeError: not JSON serializable"))
    /\ UNCHANGED <<files, form, locals, history>>

\* ------------------------------------------------------------- specifications
\* NumReq requests in flight, their steps interleaved
Next ==
    \E r \in Reqs :
        \/ \E f \in SmallForms : Receive(r, f)
        \/ ParseDimensions(r)
        \/ \E o \in FetchOutcomes(form[r].imageUrl, RemoteImages) : FetchUrl(r, o)
        \/ SaveTemp(r)
        \/ EmptyFilename(r)
        \/ SaveUpload(r)
        \/ MissingSource(r)
        \/ GenerateThumbnail(r)
        \/ GetMetadata(r)
        \/ \E refused \in BOOLEAN : Cleanup(r, refused)
        \/ Respond(r)

Spec == Init /\ [][Next]_vars

\* one request at a time, over every form and image of the bounds
NextOne ==
    \/ \E f \in AllForms : Receive(1, f)
    \/ ParseDimensions(1)
    \/ \E o \in FetchOutcomes(form[1].imageUrl, AllImages) : FetchUrl(1, o)
    \/ SaveTemp(1)
    \/ EmptyFilename(1)
    \/ SaveUpload(1)
    \/ MissingSource(1)
    \/ GenerateThumbnail(1)
    \/ GetMetadata(1)
    \/ \E refused \in BOOLEAN : Cleanup(1, refused)
    \/ Respond(1)

SpecOne == Init /\ [][NextOne]_vars


\* ------------------------------------------------------------- properties
Done(r) == pc[r] = "done"

UrlSourced(r) == pc[r] # "idle" /\ form[r].imageUrl # ABSENT

UploadSourced(r) == pc[r] # "idle" /\ form[r].imageUrl = ABSENT /\ form[r].image # NoUpload

\* the uploads directory holds a file request r wrote
OwnFilePresent(r) == \E p \in Paths : files[p].kind = "file" /\ files[p].owner = r

\* the path the request stored its image under, Unbound before that
ResolvedPath(r) == IF temp_filepath[r] # Unbound THEN temp_filepath[r] ELSE image_path[r]

DimensionsParse(r) == FormInt(form[r].width).ok /\ FormInt(form[r].height).ok

Max(a, b) == IF a >= b THEN a ELSE b

C2_NoUrlResidue ==
    \A r \in Reqs : Done(r) /\ UrlSourced(r) => ~OwnFilePresent(r)

\* ---- C3
\* C3: a request with neither imageUrl nor image, whatever its width and
\* height fields hold, is answered 400 with a JSON error and writes no file.
C3_MissingSource ==
    \A r \in Reqs :
        Done(r) /\ form[r].imageUrl = ABSENT /\ form[r].image = NoUpload =>
            /\ status[r] = 400
            /\ body[r].kind = "json" /\ body[r].error # ""
            /\ ~OwnFilePresent(r)

\* the same for the requests whose width and height fields int() accepts
MissingSource_WhenDimensionsParse ==
    \A r \in Reqs :
        Done(r) /\ DimensionsParse(r) /\ form[r].imageUrl = ABSENT /\ form[r].image = NoUpload =>
            /\ status[r] = 400
            /\ body[r].kind = "json" /\ body[r].error # ""
            /\ ~OwnFilePresent(r)

\* ---- C4
\* C4: a request with no imageUrl whose image has an empty filename is
\* answered 400 "No selected file" and saves nothing.
C4_EmptyFilename ==
    \A r \in Reqs :
        Done(r) /\ UploadSourced(r) /\ form[r].image.filename = <<>> =>
            /\ status[r] = 400
            /\ body[r].kind = "json" /\ body[r].error = "No selected file"
            /\ ~OwnFilePresent(r)

EmptyFilename_WhenDimensionsParse ==
    \A r \in Reqs :
        Done(r) /\ DimensionsParse(r) /\ UploadSourced(r) /\ form[r].image.filename = <<>> =>
            /\ status[r] = 400
            /\ body[r].kind = "json" /\ body[r].error = "No selected file"
            /\ ~OwnFilePresent(r)

\* ---- C5
\* no remote content makes the URL open
NeverFetches(url) == \A o \in FetchOutcomes(url, AllImages) : ~o.ok

\* the fetch, the decoding or the saving of the temp file was tried and raised
SourceFailed(r) ==
    /\ "fetch" \in ran[r]
    /\ \/ img[r] = NoImage
       \/ "save" \in ran[r] /\ image_path[r] = Unbound

\* C5: a request whose imageUrl cannot be fetched, decoded or saved to the
\* temp file is answered 400 with a message that carries the cause, and
\* thumbnail generation, metadata extraction and cleanup never run for it.
C5_FetchFailure ==
    \A r \in Reqs :
        Done(r) /\ UrlSourced(r) /\ (NeverFetches(form[r].imageUrl) \/ SourceFailed(r)) =>
            /\ status[r] = 400
            /\ body[r].kind = "json"
            /\ body[r].error = "Error downloading image from URL: " /\ body[r].cause # ""
            /\ ran[r] \cap {"generate", "metadata", "cleanup"} = {}

FetchFailure_WhenDimensionsParse ==
    \A r \in Reqs :
        /\ Done(r) /\ DimensionsParse(r) /\ UrlSourced(r)
        /\ (NeverFetches(form[r].imageUrl) \/ SourceFailed(r))
        => /\ status[r] = 400
           /\ body[r].kind = "json"
           /\ body[r].error = "Error downloading image from URL: " /\ body[r].cause # ""
           /\ ran[r] \cap {"generate", "metadata", "cleanup"} = {}

\* ---- C6
\* decoding, resizing or JPEG-encoding of what the path held fails
GenerationFails(file, w, h) ==
    \/ file.kind # "file"
    \/ file.data.kind # "image"
    \/ ~ThumbnailSize(file.data.w, file.data.h, w, h).ok
    \/ ~file.data.jpeg

\* C6: whenever decoding, resizing or JPEG-encoding of the image at the
\* resolved path fails, the answer is 500 "Failed to generate thumbnail" and
\* metadata extraction is not attempted.
C6_GenerationFailure ==
    \A r \in Reqs :
        seen[r].gen # Unopened /\ GenerationFails(seen[r].gen, width[r], height[r]) =>
            /\ status[r] = 500
            /\ body[r].kind = "json" /\ body[r].error = "Failed to generate thumbnail"
            /\ "metadata" \notin ran[r]

\* a corrupt upload was opened and the request answered 500
C6_Witness ==
    \E r \in Reqs :
        /\ UploadSourced(r)
        /\ seen[r].gen = File(r, Garbage)
        /\ status[r] = 500

\* ---- C7
\* opening the image or reading its tag table fails
ExtractionFails(file) ==
    \/ file.kind # "file"
    \/ file.data.kind # "image"
    \/ file.data.exif = "raises"

HasNoTagTable(file) ==
    file.kind = "file" /\ file.data.kind = "image" /\ file.data.exif = "none"

\* C7: for a request whose thumbnail was generated, a failure of metadata
\* extraction, or an image without a tag table, gives a 200 response whose
\* metadata is the empty mapping.
C7_MetadataNonFatal ==
    \A r \in Reqs :
        /\ thumbnail_io[r] # NoThumbnail
        /\ seen[r].meta # Unopened
        /\ ExtractionFails(seen[r].meta) \/ HasNoTagTable(seen[r].meta)
        => /\ metadata[r] = EmptyMetadata
           /\ status[r] \in {0, 200}
           /\ Done(r) => /\ status[r] = 200
                         /\ body[r].kind = "json" /\ body[r].error = ""
                         /\ body[r].metadata = EmptyMetadata

\* reading the tag table raised and the request was answered 200
C7_Witness ==
    \E r \in Reqs :
        /\ thumbnail_io[r] # NoThumbnail
        /\ seen[r].meta.kind = "file" /\ seen[r].meta.data.kind = "image"
        /\ seen[r].meta.data.exif = "raises"
        /\ status[r] = 200

\* ---- C8
\* the integer a field stands for, 100 when it is absent or not a number
FieldOrDefault(field) ==
    IF field # ABSENT /\ IntParses(field) THEN IntValue(field) ELSE DEFAULT_DIM

\* C8: the width and height used are the integers of the fields, 100 for a
\* field that is absent or non-numeric, and a non-numeric field does not
\* make the request fail.
C8_DimensionFallback ==
    \A r \in Reqs :
        pc[r] \notin {"idle", "parse"} =>
            /\ width[r] = FieldOrDefault(form[r].width)
            /\ height[r] = FieldOrDefault(form[r].height)
            /\ body[r].kind # "html" \/ body[r].cause # "ValueError: invalid literal for int()"

\* ---- C9
\* the image the request supplied
SourceImage(r) == IF UrlSourced(r) THEN img[r] ELSE form[r].image.content

\* C9 (one request, SpecOne): for positive requested width and height the
\* thumbnail is at most width x height and its sides are in the source's
\* ratio up to the rounding of one side to an integer.
C9_ThumbnailBounds ==
    \A r \in Reqs :
        thumbnail_io[r] # NoThumbnail /\ width[r] > 0 /\ height[r] > 0 =>
            LET t == thumbnail_io[r]
                s == SourceImage(r)
            IN  /\ t.w =< width[r] /\ t.h =< height[r]
                /\ t.w >= 1 /\ t.h >= 1
                /\ Abs(t.w * s.h - t.h * s.w) < Max(s.w, s.h)

\* an image was shrunk
C9_Witness ==
    \E r \in Reqs :
        /\ status[r] = 200
        /\ width[r] > 0 /\ height[r] > 0
        /\ thumbnail_io[r].w < SourceImage(r).w
        /\ thumbnail_io[r].h < SourceImage(r).h

\* ---- C10
\* the request made its thumbnail or metadata from bytes another request wrote
ReadForeign(r) ==
    \/ seen[r].gen.kind = "file" /\ seen[r].gen.owner # r
    \/ seen[r].meta.kind = "file" /\ seen[r].meta.owner # r

\* the request saved its file and found none when generating the thumbnail
LostFile(r) == seen[r].gen = NoFile /\ status[r] = 500

\* the upload was answered 200 and its file is gone
UploadGone(r) == status[r] = 200 /\ UploadSourced(r) /\ files[image_path[r]] = NoFile

\* C10: requests that resolve to the same path can overwrite each other. A
\* request reads bytes it did not write, loses its file before generating,
\* or finds its upload gone after its 200 only when another request stored
\* under the same path; C10_Witness is such an interleaving.
C10_RaceNeedsCollision ==
    \A r \in Reqs :
        ReadForeign(r) \/ LostFile(r) \/ UploadGone(r) =>
            \E q \in Reqs \ {r} : "save" \in ran[q] /\ ResolvedPath(q) = image_path[r]

\* an upload answered 200 from another request's bytes, its own file gone
C10_Witness ==
    \E r \in Reqs : ReadForeign(r) /\ UploadGone(r)

\* a request answered 500 because another request's cleanup removed its file
C10_LostFileReached == \E r \in Reqs : LostFile(r)

====
